---- MODULE Spec2Model ----
(***************************************************************************)
(* Model of src/model.py: class Model, the orchestration engine of a small *)
(* neural-network framework (graph construction, forward and backward      *)
(* propagation, the train / evaluate / predict loops, parameter update,    *)
(* save and load).                                                         *)
(*                                                                         *)
(* Every public method is one action.  A method body is translated         *)
(* statement by statement into operators that thread a record `s` holding  *)
(* the object graph; a Python exception stops the body at the statement    *)
(* that raises it and keeps the assignments made before it.                *)
(*                                                                         *)
(* Arrays are abstract.  A stored array is a record                        *)
(*   rows  - the dataset rows it holds, in order                           *)
(*   chain - the objects it went through, in order                         *)
(*   tr    - the training flag it was computed under                       *)
(*   pass  - a stamp: the number, within the method running, of the        *)
(*           Model.forward / Model.backward call that stored it; 0 when it *)
(*           was stored by an earlier method call; -1 when the attribute   *)
(*           does not exist.                                               *)
(* `trace` is the list of collaborator calls made by the last method.      *)
(***************************************************************************)
EXTENDS Integers, Sequences, FiniteSets, TLC

\* ------------------------------------------------------------------ bounds
MaxLayers == 3        \* longest layer list
NumLayerObjs == 3     \* layer objects the caller can construct
MaxRows == 3          \* largest dataset (rows)
MaxBatch == 2         \* largest batch size
MaxEpochs == 2        \* largest epochs argument
MaxFinalize == 2      \* finalize calls per behaviour
MaxVersion == 2       \* parameter version held by the snapshots handed in
MaxReport == 1        \* largest report interval
MaxCalls == 6         \* method calls per behaviour, save and load aside
MaxSaves == 1         \* save calls per behaviour
MaxLoads == 1         \* load calls per behaviour

\* ----------------------------------------------------------- object pools
LayerIds == 1 .. NumLayerObjs
LossIds == 1 .. 2
CCE == 1                          \* the LossCCE instance; 2 is another loss

\* The class of a layer object: Dense layers carry weights, SoftMax is the
\* normalised-probability activation, ReLU any other activation.
Kind(l) == CASE l % 4 = 1 -> "Dense"
             [] l % 4 = 2 -> "SoftMax"
             [] l % 4 = 3 -> "Dense"
             [] OTHER     -> "ReLU"

HasWeights(l) == Kind(l) = "Dense"
IsSoftMax(l) == Kind(l) = "SoftMax"
IsLossCCE(o) == o = CCE

\* ------------------------------------------------------------------ values
NoVal == [pass |-> -1, chain |-> << >>, rows |-> << >>, tr |-> FALSE]
Has(v) == v.pass >= 0

\* chain tags of the objects that are not layers
LossTag(o) == 100 + o
FusedTag == 200

\* a reference held in prev / next
NoRef == [k |-> "none", i |-> 0]
InputRef(g) == [k |-> "input", i |-> g]
LayerRef(l) == [k |-> "layer", i |-> l]
LossRef(o) == [k |-> "loss", i |-> o]

NoExc == "none"

NewLayer == [prev |-> NoRef, next |-> NoRef, inputs |-> NoVal,
             output |-> NoVal, dinputs |-> NoVal, dweights |-> NoVal,
             params |-> 0]

NewLoss == [dinputs |-> NoVal, count |-> 0, rows |-> 0, trainable |-> << >>]

NewAccuracy == [count |-> 0, rows |-> 0, initialized |-> FALSE]

NoCall == [op |-> "none", args |-> << >>, exc |-> NoExc, ret |-> NoVal,
           predictions |-> << >>, parameters |-> << >>]

VARIABLES
  layers,                    \* self.layers
  loss,                      \* self.loss: a loss object, 0 = no such attribute
  optimizer,                 \* self.optimizer: 1 = set, 0 = no such attribute
  accuracy,                  \* self.accuracy: 1 = set, 0 = no such attribute
  layer_input,               \* self.layer_input: the sentinel's identity, 0 = none
  input_output,              \* self.layer_input.output
  trainable,                 \* self.trainable (exists iff layer_input # 0)
  activation,                \* self.activation: a layer, 0 = no such attribute
  combined_loss_activation,  \* [present, dinputs]
  layer,                     \* the fields of every layer object
  loss_obj,                  \* the fields of every loss object
  accuracy_obj,              \* the fields of the accuracy object
  trace,                     \* collaborator calls of the last method
  call,                      \* the last method: name, exception, return value
  ncalls,                    \* method calls made so far, save and load aside
  saved,                     \* the file at `path`: << >> or << the pickled model >>
  nsaves,                    \* save calls made so far
  nloads                     \* load calls made so far; the model the caller
                             \* holds is an unpickled one when positive

vars == << layers, loss, optimizer, accuracy, layer_input, input_output,
           trainable, activation, combined_loss_activation, layer, loss_obj,
           accuracy_obj, trace, call, ncalls, saved, nsaves, nloads >>

\* ------------------------------------------------------- threaded record
\* The object graph as one record, with the bookkeeping of a running method:
\* exc (the exception raised, if any), clock (forward/backward calls so far),
\* nsteps (loop steps begun so far, over all passes of the method), step (the
\* number of the loop step running, 0 outside one), ret (value returned by the
\* last Model.forward).
Cur == [layers |-> layers, loss |-> loss, optimizer |-> optimizer,
        accuracy |-> accuracy, layer_input |-> layer_input,
        input_output |-> input_output, trainable |-> trainable,
        activation |-> activation,
        combined_loss_activation |-> combined_loss_activation,
        layer |-> layer, loss_obj |-> loss_obj, accuracy_obj |-> accuracy_obj,
        trace |-> << >>, exc |-> NoExc, clock |-> 0, step |-> 0, nsteps |-> 0,
        ret |-> NoVal, args |-> << >>,
        predictions |-> << >>, parameters |-> << >>, file |-> saved]

AgeVal(v) == IF v.pass > 0 THEN [v EXCEPT !.pass = 0] ELSE v

\* Entry of a public method: what earlier methods stored is now old.
Begin ==
  [Cur EXCEPT
     !.input_output = AgeVal(@),
     !.combined_loss_activation = [@ EXCEPT !.dinputs = AgeVal(@)],
     !.layer = [l \in LayerIds |->
                  [@[l] EXCEPT !.inputs = AgeVal(@), !.output = AgeVal(@),
                               !.dinputs = AgeVal(@), !.dweights = AgeVal(@)]],
     !.loss_obj = [o \in LossIds |-> [@[o] EXCEPT !.dinputs = AgeVal(@)]]]

\* Entry of a public method called with the numbers `args`.
Called(args) == [Begin EXCEPT !.args = args]

\* Exit of a public method: publish the object graph and the outcome.
Publish(name, s) ==
  \E r \in {s} :
       /\ layers' = r.layers
       /\ loss' = r.loss
       /\ optimizer' = r.optimizer
       /\ accuracy' = r.accuracy
       /\ layer_input' = r.layer_input
       /\ input_output' = r.input_output
       /\ trainable' = r.trainable
       /\ activation' = r.activation
       /\ combined_loss_activation' = r.combined_loss_activation
       /\ layer' = r.layer
       /\ loss_obj' = r.loss_obj
       /\ accuracy_obj' = r.accuracy_obj
       /\ trace' = r.trace
       /\ saved' = r.file
       /\ call' = [op |-> name, args |-> r.args, exc |-> r.exc,
                   ret |-> r.ret, predictions |-> r.predictions,
                   parameters |-> r.parameters]

\* Exit of a method other than save and load.
Commit(name, s) ==
  /\ ncalls < MaxCalls
  /\ ncalls' = ncalls + 1
  /\ UNCHANGED << nsaves, nloads >>
  /\ Publish(name, s)

\* A statement reached after an exception was raised is not executed: the
\* statement operators below return such a record as it is.
Raised(s) == s.exc # NoExc

Raise(s, e) == IF Raised(s) THEN s ELSE [s EXCEPT !.exc = e]

Event(name, tgt, arg, c, training) ==
  [op |-> name, tgt |-> tgt, arg |-> arg, call |-> c, training |-> training,
   step |-> 0]

\* the event is filed under the loop step that is running (0 outside a loop)
Log(s, e) == [s EXCEPT !.trace = Append(@, [e EXCEPT !.step = s.step])]

\* ------------------------------------------------------------------- Init
Init ==
  /\ layers = << >>
  /\ loss = 0
  /\ optimizer = 0
  /\ accuracy = 0
  /\ layer_input = 0
  /\ input_output = NoVal
  /\ trainable = << >>
  /\ activation = 0
  /\ combined_loss_activation = [present |-> FALSE, dinputs |-> NoVal]
  /\ layer = [l \in LayerIds |-> NewLayer]
  /\ loss_obj = [o \in LossIds |-> NewLoss]
  /\ accuracy_obj = NewAccuracy
  /\ trace = << >>
  /\ call = NoCall
  /\ ncalls = 0
  /\ saved = << >>
  /\ nsaves = 0
  /\ nloads = 0

\* -------------------------------------------------------------------- add
\* The argument is a newly constructed layer object (one not yet in the list).
add(s, l) == [s EXCEPT !.layers = Append(@, l)]

Add ==
  \E l \in LayerIds :
    /\ Len(layers) < MaxLayers
    /\ \A i \in 1 .. Len(layers) : layers[i] # l
    /\ Commit("add", add(Called(<< l >>), l))

\* -------------------------------------------------------------------- set
\* 0 stands for an omitted (None) keyword argument.  The caller always passes
\* the optimizer and the accuracy object, with or without a loss.
set(s, lo, op, ac) ==
  [s EXCEPT !.loss = IF lo # 0 THEN lo ELSE @,
            !.optimizer = IF op # 0 THEN op ELSE @,
            !.accuracy = IF ac # 0 THEN ac ELSE @]

Set ==
  \E lo \in {0} \cup LossIds :
    Commit("set", set(Called(<< lo, 1, 1 >>), lo, 1, 1))

\* --------------------------------------------------------------- finalize
\* self.layers[i] of the source, i counted from 0; IndexError out of range.
InRange(s, i) == i >= 0 /\ i < Len(s.layers)
At(s, i) == s.layers[i + 1]

\* One iteration of the linking loop (lines 94-112).
LinkLayer(s, i) ==
  LET n == Len(s.layers)
      l == At(s, i)
  IN IF i = 0 THEN
       LET s1 == [s EXCEPT !.layer[l].prev = InputRef(s.layer_input)]
       IN IF ~InRange(s, i + 1) THEN Raise(s1, "IndexError")
          ELSE [s1 EXCEPT !.layer[l].next = LayerRef(At(s, i + 1))]
     ELSE IF i < n - 1 THEN
       [s EXCEPT !.layer[l].prev = LayerRef(At(s, i - 1)),
                 !.layer[l].next = LayerRef(At(s, i + 1))]
     ELSE
       LET s1 == [s EXCEPT !.layer[l].prev = LayerRef(At(s, i - 1))]
       IN IF s.loss = 0 THEN Raise(s1, "AttributeError")
          ELSE [s1 EXCEPT !.layer[l].next = LossRef(s.loss),
                          !.activation = l]

\* hasattr(self.layers[i], "weights") and the append (lines 111-112)
CollectTrainable(s, i) ==
  IF Raised(s) \/ ~HasWeights(At(s, i)) THEN s
  ELSE [s EXCEPT !.trainable = Append(@, At(s, i))]

RECURSIVE FinalizeLoop(_, _)
FinalizeLoop(s, i) ==
  IF Raised(s) \/ i >= Len(s.layers) THEN s
  ELSE FinalizeLoop(CollectTrainable(LinkLayer(s, i), i), i + 1)

\* lines 115-116
StoreTrainable(s) ==
  IF Raised(s) THEN s
  ELSE IF s.loss = 0 THEN Raise(s, "AttributeError")
  ELSE Log([s EXCEPT !.loss_obj[s.loss].trainable = s.trainable],
           Event("loss.store_trainable_layers", s.loss, NoVal, 0, FALSE))

\* lines 119-121: a fresh SoftMaxCCE when the predicate holds; nothing else
DetectCombined(s) ==
  IF Raised(s) THEN s
  ELSE IF Len(s.layers) = 0 THEN Raise(s, "IndexError")
  ELSE IF IsSoftMax(s.layers[Len(s.layers)]) /\ IsLossCCE(s.loss)
       THEN [s EXCEPT !.combined_loss_activation =
                          [present |-> TRUE, dinputs |-> NoVal]]
       ELSE s

\* FinalizeBegin that keeps the trainable list of the previous finalize.
FinalizeBeginKeepTrainable(s) ==
  [s EXCEPT !.layer_input = @ + 1, !.input_output = NoVal]

\* lines 84-90: a fresh sentinel and an empty trainable list
FinalizeBegin(s) ==
  [s EXCEPT !.layer_input = @ + 1, !.input_output = NoVal,
            !.trainable = << >>]

finalize(s) == DetectCombined(StoreTrainable(FinalizeLoop(FinalizeBegin(s), 0)))

Finalize ==
  /\ layer_input < MaxFinalize
  /\ Commit("finalize", finalize(Begin))

\* ---------------------------------------------------------------- forward
\* a dataset (or slice of one) handed in by the caller
Raw(rows) == [pass |-> 0, chain |-> << >>, rows |-> rows, tr |-> FALSE]
Stamp(v, c) == [v EXCEPT !.pass = c]

\* <ref>.output; NoVal when the object has no such attribute.  A sentinel
\* other than the current one is never linked (SentinelIsCurrent below).
OutputOf(s, ref) ==
  CASE ref.k = "input" -> IF ref.i = s.layer_input THEN s.input_output
                          ELSE NoVal
    [] ref.k = "layer" -> s.layer[ref.i].output
    [] OTHER -> NoVal

\* <ref>.dinputs; NoVal when the object has no such attribute
DinputsOf(s, ref) ==
  CASE ref.k = "layer" -> s.layer[ref.i].dinputs
    [] ref.k = "loss" -> s.loss_obj[ref.i].dinputs
    [] OTHER -> NoVal

\* self.layer_input.forward(X, training)  (line 210)
InputForward(s, X, training, c) ==
  Log([s EXCEPT !.input_output = [Stamp(X, c) EXCEPT !.tr = training]],
      Event("input.forward", 0, X, c, training))

\* layer.forward(layer.prev.output, training)  (line 215)
LayerForward(s, l, training, c) ==
  LET p == s.layer[l].prev
      v == OutputOf(s, p)
  IN IF p.k = "none" \/ ~Has(v) THEN Raise(s, "AttributeError")
     ELSE Log([s EXCEPT !.layer[l].inputs = Stamp(v, c),
                        !.layer[l].output =
                           [pass |-> c, chain |-> Append(v.chain, l),
                            rows |-> v.rows, tr |-> training]],
              Event("layer.forward", l, v, c, training))

\* ForwardLoop walking the layer list from its end.
RECURSIVE ForwardLoopDescending(_, _, _, _)
ForwardLoopDescending(s, i, training, c) ==
  IF Raised(s) \/ i > Len(s.layers) THEN s
  ELSE ForwardLoopDescending(
         LayerForward(s, s.layers[Len(s.layers) + 1 - i], training, c), i + 1,
         training, c)

RECURSIVE ForwardLoop(_, _, _, _)
ForwardLoop(s, i, training, c) ==
  IF Raised(s) \/ i > Len(s.layers) THEN s
  ELSE ForwardLoop(LayerForward(s, s.layers[i], training, c), i + 1,
                   training, c)

\* return layer.output: the loop variable is unbound for an empty list
ForwardReturn(s) ==
  IF Raised(s) THEN s
  ELSE IF Len(s.layers) = 0 THEN Raise(s, "UnboundLocalError")
  ELSE [s EXCEPT !.ret = s.layer[s.layers[Len(s.layers)]].output]

\* entry of Model.forward: the call is numbered, nothing is returned yet
ForwardBegin(s) == [s EXCEPT !.clock = @ + 1, !.ret = NoVal]

forward(s, X, training) ==
  IF s.layer_input = 0 THEN Raise(ForwardBegin(s), "AttributeError")
  ELSE ForwardReturn(
         ForwardLoop(InputForward(ForwardBegin(s), X, training, s.clock + 1),
                     1, training, s.clock + 1))

Dataset(n) == Raw([i \in 1 .. n |-> i])

Forward ==
  \E n \in {1, MaxRows}, training \in BOOLEAN :
    Commit("forward", forward(Called(<< n >>), Dataset(n), training))

\* --------------------------------------------------------------- backward
\* layer.backward(layer.next.dinputs)  (lines 233, 242)
LayerBackward(s, l, c) ==
  LET nx == s.layer[l].next
      g == DinputsOf(s, nx)
      d == [pass |-> c, chain |-> Append(g.chain, l), rows |-> g.rows,
            tr |-> FALSE]
  IN IF nx.k = "none" \/ ~Has(g) THEN Raise(s, "AttributeError")
     ELSE Log([s EXCEPT !.layer[l].dinputs = d,
                        !.layer[l].dweights =
                           IF HasWeights(l) THEN d ELSE @],
              Event("layer.backward", l, g, c, FALSE))

\* for layer in reversed(self.layers[:hi]), hi counted from 1
RECURSIVE BackwardLoop(_, _, _)
BackwardLoop(s, i, c) ==
  IF Raised(s) \/ i < 1 THEN s
  ELSE BackwardLoop(LayerBackward(s, s.layers[i], c), i - 1, c)

\* BackwardCombined that also calls the last layer's own backward.
BackwardCombinedAllLayers(s, inputs, c) ==
  LET d == [pass |-> c, chain |-> Append(inputs.chain, FusedTag),
            rows |-> inputs.rows, tr |-> FALSE]
      s1 == Log([s EXCEPT !.combined_loss_activation.dinputs = d],
                Event("combined.backward", 0, inputs, c, FALSE))
      n == Len(s.layers)
  IN IF n = 0 THEN Raise(s1, "IndexError")
     ELSE BackwardLoop(
            [s1 EXCEPT !.layer[s.layers[n]].dinputs = d],
            n, c)

\* lines 225-235
BackwardCombined(s, inputs, c) ==
  LET d == [pass |-> c, chain |-> Append(inputs.chain, FusedTag),
            rows |-> inputs.rows, tr |-> FALSE]
      s1 == Log([s EXCEPT !.combined_loss_activation.dinputs = d],
                Event("combined.backward", 0, inputs, c, FALSE))
      n == Len(s.layers)
  IN IF n = 0 THEN Raise(s1, "IndexError")
     ELSE BackwardLoop(
            [s1 EXCEPT !.layer[s.layers[n]].dinputs = d],
            n - 1, c)

\* BackwardLoss that does not seed the gradient: the loss's backward is
\* skipped and the last layer reads whatever the loss still holds.
BackwardLossUnseeded(s, inputs, c) ==
  IF s.loss = 0 THEN Raise(s, "AttributeError")
  ELSE BackwardLoop(s, Len(s.layers), c)

\* lines 238-242
BackwardLoss(s, inputs, c) ==
  IF s.loss = 0 THEN Raise(s, "AttributeError")
  ELSE BackwardLoop(
         Log([s EXCEPT !.loss_obj[s.loss].dinputs =
                          [pass |-> c,
                           chain |-> Append(inputs.chain, LossTag(s.loss)),
                           rows |-> inputs.rows, tr |-> FALSE]],
             Event("loss.backward", s.loss, inputs, c, FALSE)),
         Len(s.layers), c)

\* entry of Model.backward: the call is numbered
BackwardBegin(s) == [s EXCEPT !.clock = @ + 1]

backward(s, inputs) ==
  IF Raised(s) THEN s
  ELSE IF s.combined_loss_activation.present
       THEN BackwardCombined(BackwardBegin(s), inputs, s.clock + 1)
       ELSE BackwardLoss(BackwardBegin(s), inputs, s.clock + 1)

\* The caller passes the output of its last forward call, or, when there is
\* none, an array of its own.
LastOutput ==
  IF Len(layers) > 0 /\ Has(layer[layers[Len(layers)]].output)
  THEN AgeVal(layer[layers[Len(layers)]].output)
  ELSE Dataset(1)

Backward == Commit("backward", backward(Begin, LastOutput))

\* ------------------------------------------------------------ batch slicing
Min(a, b) == IF a < b THEN a ELSE b

\* The batch-size argument is None (the default) or a number; `if batches:`
\* takes None and 0 alike for false.
None == -1
Truthy(batches) == batches # None /\ batches # 0

\* Steps without the overflow check: the short last batch is dropped.
StepsFloor(n, batches) == IF Truthy(batches) THEN n \div batches ELSE 1

\* lines 129-136, 246-253, 287-294
Steps(n, batches) ==
  IF Truthy(batches)
  THEN LET q == n \div batches
       IN IF q * batches < n THEN q + 1 ELSE q
  ELSE 1

\* rows[lo:hi] of Python, lo and hi counted from 0
Slice(rows, lo, hi) == SubSeq(rows, lo + 1, Min(hi, Len(rows)))

\* lines 148-153: the batch of step `step` (counted from 0)
Batch(X, step, batches) ==
  IF ~Truthy(batches) THEN X
  ELSE [X EXCEPT !.rows = Slice(X.rows, step * batches, (step + 1) * batches)]

\* The (rows, batch size) pairs tried by the loops: every dataset size with
\* the largest batch size, and the largest dataset with every batch size,
\* zero and None included.
SliceArgs ==
  {<< n, MaxBatch >> : n \in 1 .. MaxRows}
  \cup {<< MaxRows, batches >> : batches \in {None} \cup (0 .. MaxBatch)}

\* entry and normal exit of one iteration of a step loop
BeginStep(s) == [s EXCEPT !.nsteps = @ + 1, !.step = s.nsteps + 1]
EndStep(s) == IF Raised(s) THEN s ELSE [s EXCEPT !.step = 0]

\* ------------------------------------------------------------ collaborators
LossReset(s) ==
  Log([s EXCEPT !.loss_obj[s.loss].count = 0, !.loss_obj[s.loss].rows = 0],
      Event("loss.reset", s.loss, NoVal, 0, FALSE))

AccuracyReset(s) ==
  Log([s EXCEPT !.accuracy_obj.count = 0, !.accuracy_obj.rows = 0],
      Event("accuracy.reset", 0, NoVal, 0, FALSE))

\* self.loss.calculate(output, y_batch, accumulating=True)
LossCalculate(s, output) ==
  IF Raised(s) THEN s ELSE
  Log([s EXCEPT !.loss_obj[s.loss].count = @ + 1,
                !.loss_obj[s.loss].rows = @ + Len(output.rows)],
      Event("loss.calculate", s.loss, output, 0, FALSE))

\* self.activation.predict(output)
ActivationPredict(s, output) ==
  IF Raised(s) THEN s
  ELSE IF s.activation = 0 THEN Raise(s, "AttributeError")
  ELSE Log(s, Event("activation.predict", s.activation, output, 0, FALSE))

\* self.accuracy.calculate(predictions, y_batch, accumulating=True)
AccuracyCalculate(s, output) ==
  IF Raised(s) THEN s ELSE
  Log([s EXCEPT !.accuracy_obj.count = @ + 1,
                !.accuracy_obj.rows = @ + Len(output.rows)],
      Event("accuracy.calculate", 0, output, 0, FALSE))

\* self.optimizer.update(layer): reads the layer's recorded gradients
OptimizerUpdate(s, l) ==
  IF ~Has(s.layer[l].dweights) THEN Raise(s, "AttributeError")
  ELSE Log([s EXCEPT !.layer[l].params = @ + 1],
           Event("optimizer.update", l, s.layer[l].dweights, 0, FALSE))

RECURSIVE UpdateLoop(_, _)
UpdateLoop(s, i) ==
  IF Raised(s) \/ i > Len(s.trainable) THEN s
  ELSE UpdateLoop(OptimizerUpdate(s, s.trainable[i]), i + 1)

\* lines 175-178
PostUpdate(s) ==
  IF Raised(s) THEN s
  ELSE Log(s, Event("optimizer.post_update", 0, NoVal, 0, FALSE))

Optimize(s) ==
  IF Raised(s) THEN s
  ELSE IF s.optimizer = 0 THEN Raise(s, "AttributeError")
  ELSE PostUpdate(
         UpdateLoop(
           Log(s, Event("optimizer.pre_update", 0, NoVal, 0, FALSE)), 1))

Console(s, what) == Log(s, Event(what, 0, NoVal, 0, FALSE))

\* lines 157-168, 270-275: the loss and the accuracy of the output that
\* Model.forward returned
Metrics(s) ==
  AccuracyCalculate(ActivationPredict(LossCalculate(s, s.ret), s.ret), s.ret)

\* line 171: self.backward(output, y_batch)
Backpropagate(s) == backward(s, s.ret)

\* lines 190-198, 278-283: the accumulated metrics, then the summary line
Accumulate(s, what) ==
  IF Raised(s) THEN s
  ELSE Console(Log(Log(s,
                 Event("loss.accumulate", s.loss, NoVal, 0, FALSE)),
                 Event("accuracy.accumulate", 0, NoVal, 0, FALSE)),
               what)

\* --------------------------------------------------------------- evaluate
\* EvaluateStep that backpropagates and optimizes as a training step does.
EvaluateStepTrains(s, X, step, batches) ==
  EndStep(Optimize(Backpropagate(Metrics(
    forward(BeginStep(s), Batch(X, step, batches), FALSE)))))

\* lines 260-275: one step of the evaluation loop
EvaluateStep(s, X, step, batches) ==
  EndStep(Metrics(forward(BeginStep(s), Batch(X, step, batches), FALSE)))

RECURSIVE EvaluateLoop(_, _, _, _, _)
EvaluateLoop(s, X, step, steps, batches) ==
  IF Raised(s) \/ step >= steps THEN s
  ELSE EvaluateLoop(EvaluateStep(s, X, step, batches), X, step + 1, steps,
                    batches)

evaluate(s, X, batches) ==
  LET steps == Steps(Len(X.rows), batches)
  IN IF s.loss = 0 THEN Raise(s, "AttributeError")
     ELSE IF s.accuracy = 0 THEN Raise(LossReset(s), "AttributeError")
     ELSE Accumulate(
            EvaluateLoop(AccuracyReset(LossReset(s)), X, 0, steps, batches),
            "print.validation")

Evaluate ==
  \E a \in SliceArgs :
    Commit("evaluate", evaluate(Called(a), Dataset(a[1]), a[2]))

\* ------------------------------------------------------------------ train
\* lines 181-187; report = 0 makes `step % report` raise
Report(s, step, steps, report) ==
  IF Raised(s) THEN s
  ELSE IF report = 0 THEN Raise(s, "ZeroDivisionError")
  ELSE IF step % report = 0 \/ step = steps - 1 THEN Console(s, "print.step")
  ELSE s

\* TrainStep with the optimizer run before backpropagation.
TrainStepOptimizeFirst(s, X, step, steps, batches, report) ==
  EndStep(Report(
    Backpropagate(Optimize(Metrics(
      forward(BeginStep(s), Batch(X, step, batches), TRUE)))),
    step, steps, report))

\* lines 148-187: one step of the training loop
TrainStep(s, X, step, steps, batches, report) ==
  EndStep(Report(
    Optimize(Backpropagate(Metrics(
      forward(BeginStep(s), Batch(X, step, batches), TRUE)))),
    step, steps, report))

RECURSIVE TrainLoop(_, _, _, _, _, _)
TrainLoop(s, X, step, steps, batches, report) ==
  IF Raised(s) \/ step >= steps THEN s
  ELSE TrainLoop(TrainStep(s, X, step, steps, batches, report), X, step + 1,
                 steps, batches, report)

\* lines 141-203: one epoch; validation = 0 stands for None, otherwise it is
\* the number of rows of the validation data
\* EpochBegin that does not reset the accumulators.
EpochBeginNoReset(s) ==
  IF s.loss = 0 THEN Raise(Console(s, "print.epoch"), "AttributeError")
  ELSE Console(s, "print.epoch")

\* lines 141-145: the epoch header, then the accumulators are reset
EpochBegin(s) ==
  IF s.loss = 0 THEN Raise(Console(s, "print.epoch"), "AttributeError")
  ELSE AccuracyReset(LossReset(Console(s, "print.epoch")))

\* lines 201-203
Validate(s, validation, batches) ==
  IF Raised(s) \/ validation = 0 THEN s
  ELSE evaluate(Console(s, "print.validating"), Dataset(validation), batches)

Epoch(s, X, steps, batches, report, validation) ==
  Validate(
    Accumulate(TrainLoop(EpochBegin(s), X, 0, steps, batches, report),
               "print.training"),
    validation, batches)

RECURSIVE EpochLoop(_, _, _, _, _, _, _, _)
EpochLoop(s, X, epoch, epochs, steps, batches, report, validation) ==
  IF Raised(s) \/ epoch > epochs THEN s
  ELSE EpochLoop(Epoch(s, X, steps, batches, report, validation), X,
                 epoch + 1, epochs, steps, batches, report, validation)

train(s, X, epochs, report, batches, validation) ==
  IF s.accuracy = 0 THEN Raise(s, "AttributeError")
  ELSE EpochLoop(
         Log([s EXCEPT !.accuracy_obj.initialized = TRUE],
             Event("accuracy.initialize", 0, NoVal, 0, FALSE)),
         X, 1, epochs, Steps(Len(X.rows), batches), batches, report,
         validation)

\* The arguments tried: one plain epoch over every slicing of SliceArgs, and
\* no or several epochs over the largest dataset cut into the largest
\* batches, with every report interval, with and without validation data.
TrainArgs ==
  {<< a[1], 1, 1, a[2], 0 >> : a \in SliceArgs}
  \cup {<< MaxRows, epochs, report, MaxBatch, validation >> :
           epochs \in {0, MaxEpochs}, report \in 0 .. MaxReport,
           validation \in {0, MaxRows - 1}}

Train ==
  \E a \in TrainArgs :
    Commit("train", train(Called(a), Dataset(a[1]), a[2], a[3], a[4], a[5]))

\* ---------------------------------------------------------------- predict
\* np.vstack: the rows of the outputs, one after another
RowsOf(v) == [i \in 1 .. Len(v.rows) |->
                [row |-> v.rows[i], chain |-> v.chain, tr |-> v.tr]]

\* PredictStep that keeps the output of the current step only.
KeepLast(s) ==
  IF Raised(s) THEN s ELSE [s EXCEPT !.predictions = RowsOf(s.ret)]

PredictStepOverwrite(s, X, step, batches) ==
  EndStep(KeepLast(forward(BeginStep(s), Batch(X, step, batches), FALSE)))

\* lines 300-306
\* line 305: predictions.append(batch_output)
Collect(s) ==
  IF Raised(s) THEN s ELSE [s EXCEPT !.predictions = @ \o RowsOf(s.ret)]

PredictStep(s, X, step, batches) ==
  EndStep(Collect(forward(BeginStep(s), Batch(X, step, batches), FALSE)))

RECURSIVE PredictLoop(_, _, _, _, _)
PredictLoop(s, X, step, steps, batches) ==
  IF Raised(s) \/ step >= steps THEN s
  ELSE PredictLoop(PredictStep(s, X, step, batches), X, step + 1, steps,
                   batches)

\* np.vstack raises on an empty list of outputs
predict(s, X, batches) ==
  IF Steps(Len(X.rows), batches) = 0 THEN Raise(s, "ValueError")
  ELSE PredictLoop(s, X, 0, Steps(Len(X.rows), batches), batches)

\* predict is also tried on the empty dataset
PredictArgs ==
  SliceArgs \cup {<< 0, batches >> : batches \in {None, MaxBatch}}

Predict ==
  \E a \in PredictArgs :
    Commit("predict", predict(Called(a), Dataset(a[1]), a[2]))

\* ------------------------------------------------------ parameter lifecycle
\* GetLoop reading the trainable set from its end.
RECURSIVE GetLoopReversed(_, _)
GetLoopReversed(s, i) ==
  IF i > Len(s.trainable) THEN s
  ELSE GetLoopReversed(
         [s EXCEPT !.parameters =
                      Append(@, s.layer[s.trainable[Len(s.trainable) + 1 - i]]
                                  .params)],
         i + 1)

RECURSIVE GetLoop(_, _)
GetLoop(s, i) ==
  IF i > Len(s.trainable) THEN s
  ELSE GetLoop([s EXCEPT !.parameters =
                            Append(@, s.layer[s.trainable[i]].params)],
               i + 1)

\* lines 27-33
get_parameters(s) ==
  IF s.layer_input = 0 THEN Raise(s, "AttributeError") ELSE GetLoop(s, 1)

GetParameters == Commit("get_parameters", get_parameters(Begin))

\* zip(settings, self.trainable) stops at the end of the shorter sequence
RECURSIVE UpdateParametersLoop(_, _, _)
UpdateParametersLoop(s, settings, i) ==
  IF i > Len(settings) \/ i > Len(s.trainable) THEN s
  ELSE UpdateParametersLoop(
         Log([s EXCEPT !.layer[s.trainable[i]].params = settings[i]],
             Event("layer.set", s.trainable[i], NoVal, 0, FALSE)),
         settings, i + 1)

\* lines 66-68
update_parameters(s, settings) ==
  IF s.layer_input = 0 THEN Raise(s, "AttributeError")
  ELSE UpdateParametersLoop(s, settings, 1)

\* snapshots the caller can hand in: up to MaxLayers of them
Settings == UNION {[1 .. k -> {MaxVersion}] : k \in 0 .. MaxLayers}

\* what the caller got from get_parameters, when that was the last call
RoundTrip == IF call.op = "get_parameters" /\ call.exc = NoExc
             THEN {call.parameters} ELSE {}

UpdateParameters ==
  \E settings \in Settings \cup RoundTrip :
    Commit("update_parameters",
           update_parameters(Called(settings), settings))

\* ------------------------------------------------------------ persistence
\* save works on a deep copy of the model (line 37): the record m below.  The
\* live model is the record s, which only receives the file.

\* lines 39-40: model.loss.reset(); model.accuracy.reset()
ResetCopy(m) ==
  IF m.loss = 0 \/ m.accuracy = 0 THEN Raise(m, "AttributeError")
  ELSE [m EXCEPT !.loss_obj[m.loss].count = 0, !.loss_obj[m.loss].rows = 0,
                 !.accuracy_obj.count = 0, !.accuracy_obj.rows = 0]

\* StripSentinel that removes the sentinel itself.
StripSentinelWhole(m) ==
  IF Raised(m) THEN m
  ELSE IF m.layer_input = 0 THEN Raise(m, "AttributeError")
  ELSE [m EXCEPT !.layer_input = 0, !.input_output = NoVal]

\* line 43: model.layer_input.__dict__.pop("output", None)
StripSentinel(m) ==
  IF Raised(m) THEN m
  ELSE IF m.layer_input = 0 THEN Raise(m, "AttributeError")
  ELSE [m EXCEPT !.input_output = NoVal]

\* line 44: model.loss.__dict__.pop("dinputs", None)
StripLoss(m) ==
  IF Raised(m) THEN m ELSE [m EXCEPT !.loss_obj[m.loss].dinputs = NoVal]

\* lines 47-50: the five properties popped from every layer of the list
\* (dweights stands for dweights and dbiases)
RECURSIVE StripLayers(_, _)
StripLayers(m, i) ==
  IF Raised(m) \/ i > Len(m.layers) THEN m
  ELSE StripLayers(
         [m EXCEPT !.layer[m.layers[i]].inputs = NoVal,
                   !.layer[m.layers[i]].output = NoVal,
                   !.layer[m.layers[i]].dinputs = NoVal,
                   !.layer[m.layers[i]].dweights = NoVal],
         i + 1)

\* what pickle writes for the model m: the model and every object it reaches
Pickle(m) ==
  [layers |-> m.layers, loss |-> m.loss, optimizer |-> m.optimizer,
   accuracy |-> m.accuracy, layer_input |-> m.layer_input,
   input_output |-> m.input_output, trainable |-> m.trainable,
   activation |-> m.activation,
   combined_loss_activation |-> m.combined_loss_activation,
   layer |-> m.layer, loss_obj |-> m.loss_obj,
   accuracy_obj |-> m.accuracy_obj]

\* Dump that leaves the live model as the stripped copy.
DumpInPlace(s, m) ==
  IF Raised(m) THEN Raise(s, m.exc)
  ELSE [m EXCEPT !.file = << Pickle(m) >>]

\* lines 53-54: the copy is written; nothing is written after an exception
Dump(s, m) ==
  IF Raised(m) THEN Raise(s, m.exc)
  ELSE [s EXCEPT !.file = << Pickle(m) >>]

save(s) == Dump(s, StripLayers(StripLoss(StripSentinel(ResetCopy(s))), 1))

Save ==
  /\ nsaves < MaxSaves
  /\ nsaves' = nsaves + 1
  /\ UNCHANGED << ncalls, nloads >>
  /\ Publish("save", save(Begin))

\* lines 56-63: the caller goes on with the model that pickle.load returns
load(s) ==
  IF s.file = << >> THEN Raise(s, "FileNotFoundError")
  ELSE [s EXCEPT !.layers = s.file[1].layers,
                 !.loss = s.file[1].loss,
                 !.optimizer = s.file[1].optimizer,
                 !.accuracy = s.file[1].accuracy,
                 !.layer_input = s.file[1].layer_input,
                 !.input_output = s.file[1].input_output,
                 !.trainable = s.file[1].trainable,
                 !.activation = s.file[1].activation,
                 !.combined_loss_activation =
                    s.file[1].combined_loss_activation,
                 !.layer = s.file[1].layer,
                 !.loss_obj = s.file[1].loss_obj,
                 !.accuracy_obj = s.file[1].accuracy_obj]

Load ==
  /\ nloads < MaxLoads
  /\ nloads' = nloads + 1
  /\ UNCHANGED << ncalls, nsaves >>
  /\ Publish("load", load(Begin))

Next ==
  \/ Add
  \/ Set
  \/ Finalize
  \/ Forward
  \/ Backward
  \/ Train
  \/ Evaluate
  \/ Predict
  \/ GetParameters
  \/ UpdateParameters

Spec == Init /\ [][Next]_vars

\* The model with its persistence: building, the calls that leave batch-scoped
\* caches behind, save and load.
NextPersist ==
  \/ Add
  \/ Set
  \/ Finalize
  \/ Forward
  \/ Backward
  \/ Train
  \/ Evaluate
  \/ Save
  \/ Load

SpecPersist == Init /\ [][NextPersist]_vars

\* ------------------------------------------------------- structural facts
\* The sentinel a layer is linked to is the current one, which is why one
\* stored output (input_output) is enough.
SentinelIsCurrent ==
  \A l \in LayerIds : layer[l].prev.k = "input" => layer[l].prev.i = layer_input

NumLayers == Len(layers)
LastLayer == layers[NumLayers]

\* The links are the simple path sentinel -> layers[0] -> ... -> loss over the
\* current layer list, sentinel and loss, and the last layer is the terminal
\* activation: what a finalize that ran to its end leaves, until the list or
\* the loss is changed.
Linked ==
  /\ NumLayers >= 1
  /\ loss # 0
  /\ layer_input # 0
  /\ layer[layers[1]].prev = InputRef(layer_input)
  /\ \A i \in 2 .. NumLayers : layer[layers[i]].prev = LayerRef(layers[i - 1])
  /\ \A i \in 1 .. NumLayers - 1 :
       layer[layers[i]].next = LayerRef(layers[i + 1])
  /\ layer[LastLayer].next = LossRef(loss)
  /\ activation = LastLayer

Returned(name) == call.op = name /\ call.exc = NoExc

\* ------------------------------------------------------------------ claims

\* C1: for every non-empty layer list, a one-layer list included, finalize
\* completes and leaves the links as the simple path sentinel -> layers[0]
\* -> ... -> layers[n-1] -> loss, recording layers[n-1] as the terminal
\* activation layer (a loss having been set).
C1_FinalizeLinksEveryList ==
  (call.op = "finalize" /\ NumLayers >= 1 /\ loss # 0)
    => (call.exc = NoExc /\ Linked)

\* ---- reading the call log
ForwardOps == {"input.forward", "layer.forward"}
MetricOps == {"loss.calculate", "activation.predict", "accuracy.calculate"}
BackwardOps == {"combined.backward", "loss.backward", "layer.backward"}
OptimizerOps == {"optimizer.pre_update", "optimizer.update",
                 "optimizer.post_update"}

Phase(e) ==
  CASE e.op \in ForwardOps -> 1
    [] e.op \in MetricOps -> 2
    [] e.op \in BackwardOps -> 3
    [] e.op = "optimizer.pre_update" -> 4
    [] e.op = "optimizer.update" -> 5
    [] e.op = "optimizer.post_update" -> 6
    [] OTHER -> 7

StepIds == {trace[i].step : i \in 1 .. Len(trace)} \ {0}

\* the calls of loop step k, and those of them whose name is in ops
InStep(k) == SelectSeq(trace, LAMBDA e : e.step = k)
OpsInStep(k, ops) == SelectSeq(trace, LAMBDA e : e.step = k /\ e.op \in ops)

Targets(ev) == [i \in 1 .. Len(ev) |-> ev[i].tgt]
Names(ev) == [i \in 1 .. Len(ev) |-> << ev[i].op, ev[i].tgt >>]
Reverse(q) == [i \in 1 .. Len(q) |-> q[Len(q) + 1 - i]]
Front(q) == SubSeq(q, 1, Len(q) - 1)
IsPrefix(p, q) == Len(p) <= Len(q) /\ p = SubSeq(q, 1, Len(p))

IsTrainingStep(k) ==
  \E i \in 1 .. Len(trace) :
    trace[i].step = k /\ trace[i].op = "input.forward" /\ trace[i].training

\* step k ran to its end
StepCompleted(k) == call.exc = NoExc \/ \E j \in StepIds : j > k

\* the optimizer calls of one step, as the source orders them
ExpectedOptimizerCalls ==
  << << "optimizer.pre_update", 0 >> >>
  \o [i \in 1 .. Len(trainable) |-> << "optimizer.update", trainable[i] >>]
  \o << << "optimizer.post_update", 0 >> >>

\* the layers backward is invoked on, in order
ExpectedBackwardTargets ==
  IF combined_loss_activation.present THEN Reverse(Front(layers))
  ELSE Reverse(layers)

\* C2: in every training step the forward pass over all layers completes
\* before backward begins, backward completes before the optimizer touches any
\* layer, and the optimizer calls are pre_update, update(layer) once per layer
\* of the trainable set in trainable-set order, post_update.
C2_TrainStepOrder ==
  call.op = "train" =>
    \A k \in StepIds :
      /\ \A i, j \in 1 .. Len(InStep(k)) :
           i < j => Phase(InStep(k)[i]) <= Phase(InStep(k)[j])
      /\ OpsInStep(k, BackwardOps \cup OptimizerOps) # << >>
           => Targets(OpsInStep(k, {"layer.forward"})) = layers
      /\ OpsInStep(k, OptimizerOps) # << >>
           => Targets(OpsInStep(k, {"layer.backward"}))
                = ExpectedBackwardTargets
      /\ IsPrefix(Names(OpsInStep(k, OptimizerOps)), ExpectedOptimizerCalls)
      /\ (IsTrainingStep(k) /\ StepCompleted(k))
           => Names(OpsInStep(k, OptimizerOps)) = ExpectedOptimizerCalls

C2_Witness ==
  /\ Returned("train")
  /\ Len(trainable) >= 2
  /\ \E k \in StepIds : IsTrainingStep(k) /\ k > 1

\* ---- batch slicing
Ceil(n, b) == (n + b - 1) \div b

RECURSIVE Flatten(_)
Flatten(q) == IF q = << >> THEN << >> ELSE Head(q) \o Flatten(Tail(q))

\* bs are the batches of one pass over n rows cut by batch size b >= 1
Slices(bs, n, b) ==
  /\ Len(bs) = Ceil(n, b)
  /\ \A k \in 1 .. Len(bs) :
       /\ bs[k] = [i \in 1 .. (Min(k * b, n) - (k - 1) * b) |-> (k - 1) * b + i]
       /\ Len(bs[k]) >= 1
       /\ Len(bs[k]) <= b
  /\ Len(bs[Len(bs)]) = n - (Len(bs) - 1) * b
  /\ Flatten(bs) = [i \in 1 .. n |-> i]

\* the batches handed to the sentinel with the given training flag, in order
Fed(flag) ==
  LET ev == SelectSeq(trace,
                      LAMBDA e : e.op = "input.forward" /\ e.training = flag)
  IN [i \in 1 .. Len(ev) |-> ev[i].arg.rows]

\* q is `passes` passes in a row, each one Slices(_, n, b)
Passes(q, passes, n, b) ==
  /\ Len(q) = passes * Ceil(n, b)
  /\ \A e \in 1 .. passes :
       Slices(SubSeq(q, (e - 1) * Ceil(n, b) + 1, e * Ceil(n, b)), n, b)

\* C3: for N >= 1 rows and batch size B >= 1, train, evaluate and predict run
\* exactly ceil(N/B) steps per pass; step k processes the contiguous rows
\* [k*B, min((k+1)*B, N)): every batch is non-empty and has at most B rows,
\* the last has N - (steps-1)*B rows, and the batches are disjoint and cover
\* all N rows in input order.
C3_BatchSlicing ==
  /\ (Returned("predict") /\ call.args[2] >= 1)
       => Passes(Fed(FALSE), 1, call.args[1], call.args[2])
  /\ (Returned("evaluate") /\ call.args[2] >= 1)
       => Passes(Fed(FALSE), 1, call.args[1], call.args[2])
  /\ (Returned("train") /\ call.args[4] >= 1)
       => /\ Passes(Fed(TRUE), call.args[2], call.args[1], call.args[4])
          /\ call.args[5] # 0
               => Passes(Fed(FALSE), call.args[2], call.args[5], call.args[4])
          /\ call.args[5] = 0 => Fed(FALSE) = << >>

C3_Witness ==
  /\ Returned("train")
  /\ call.args[4] >= 2
  /\ call.args[1] > call.args[4]
  /\ call.args[1] % call.args[4] # 0
  /\ call.args[2] >= 1
  /\ call.args[5] # 0

\* C4: update_parameters(settings) fails whenever settings and the trainable
\* set differ in length: on a finalized model, a call that returns was given
\* exactly one snapshot per trainable layer.
C4_UpdateParametersRejectsMismatch ==
  (Returned("update_parameters") /\ Linked)
    => Len(call.args) = Len(trainable)

\* C5: after a finalize that completed, a repeated one included, the fused
\* shortcut is present if and only if the current last layer is the softmax
\* variant and the current loss is the categorical-cross-entropy variant.
C5_ShortcutMatchesCurrentGraph ==
  Returned("finalize")
    => (combined_loss_activation.present
          <=> (IsSoftMax(LastLayer) /\ IsLossCCE(loss)))

\* ---- one pass through the graph
FusedMode == combined_loss_activation.present

\* C6: after finalize on a valid layer list, one forward call invokes the
\* sentinel's forward on the raw batch and then each layer's forward exactly
\* once in list order; each layer receives the output its predecessor wrote
\* in this same pass, and the value returned is the last layer's recorded
\* output.
C6_ForwardOrder ==
  (call.op = "forward" /\ Linked) =>
    /\ call.exc = NoExc
    /\ Len(trace) = NumLayers + 1
    /\ trace[1].op = "input.forward"
    /\ trace[1].arg = Dataset(call.args[1])
    /\ \A i \in 1 .. NumLayers :
         /\ trace[i + 1].op = "layer.forward"
         /\ trace[i + 1].tgt = layers[i]
         /\ trace[i + 1].training = trace[1].training
         /\ trace[i + 1].arg.pass = trace[i + 1].call
         /\ trace[i + 1].arg.chain = SubSeq(layers, 1, i - 1)
         /\ trace[i + 1].arg.rows = trace[1].arg.rows
         /\ trace[i + 1].arg =
              IF i = 1 THEN input_output ELSE layer[layers[i - 1]].output
    /\ call.ret = layer[LastLayer].output
    /\ call.ret.pass = 1
    /\ call.ret.chain = layers

C6_Witness ==
  /\ Returned("forward")
  /\ Linked
  /\ NumLayers >= 2
  /\ \E l \in LayerIds : Has(layer[l].dinputs)

\* C7: in fused mode one backward call invokes the fused shortcut's backward
\* exactly once, never the last layer's own backward and never the loss's
\* backward, sets the last layer's dinputs to the shortcut's dinputs, and then
\* invokes backward once on each remaining layer in reverse list order with
\* its successor's dinputs.
C7_FusedBackward ==
  (call.op = "backward" /\ Linked /\ FusedMode) =>
    /\ call.exc = NoExc
    /\ Len(trace) = NumLayers
    /\ trace[1].op = "combined.backward"
    /\ combined_loss_activation.dinputs.pass = 1
    /\ layer[LastLayer].dinputs = combined_loss_activation.dinputs
    /\ \A i \in 1 .. NumLayers - 1 :
         /\ trace[i + 1].op = "layer.backward"
         /\ trace[i + 1].tgt = layers[NumLayers - i]
         /\ trace[i + 1].arg = layer[layers[NumLayers - i + 1]].dinputs
         /\ trace[i + 1].arg.pass = trace[i + 1].call

C7_Witness ==
  /\ Returned("backward")
  /\ Linked
  /\ FusedMode
  /\ NumLayers >= 2
  /\ Has(layer[LastLayer].output)

\* C8: in decomposed mode one backward call invokes the loss's backward first
\* and then every layer's backward exactly once in reverse list order; the
\* gradient each layer consumes is the dinputs its successor (the loss for the
\* last layer) wrote earlier in this same backward pass, in a direct call and
\* in every step of train alike.
C8_DecomposedBackward ==
  /\ (call.op = "backward" /\ Linked /\ ~FusedMode) =>
       /\ call.exc = NoExc
       /\ Len(trace) = NumLayers + 1
       /\ trace[1].op = "loss.backward"
       /\ trace[1].tgt = loss
       /\ \A i \in 1 .. NumLayers :
            /\ trace[i + 1].op = "layer.backward"
            /\ trace[i + 1].tgt = layers[NumLayers + 1 - i]
            /\ trace[i + 1].arg =
                 IF i = 1 THEN loss_obj[loss].dinputs
                 ELSE layer[layers[NumLayers + 2 - i]].dinputs
            /\ trace[i + 1].arg.pass = trace[i + 1].call
  /\ (call.op = "train" /\ Linked /\ ~FusedMode) =>
       \A k \in StepIds :
         LET ev == OpsInStep(k, BackwardOps)
         IN (IsTrainingStep(k) /\ StepCompleted(k)) =>
              /\ Names(ev) = << << "loss.backward", loss >> >>
                             \o [i \in 1 .. NumLayers |->
                                   << "layer.backward",
                                      layers[NumLayers + 1 - i] >>]
              /\ \A i \in 2 .. Len(ev) :
                   /\ ev[i].arg.pass = ev[i].call
                   /\ ev[i].arg.chain =
                        ev[1].arg.chain \o << LossTag(loss) >>
                        \o SubSeq(Reverse(layers), 1, i - 2)

C8_Witness ==
  /\ Returned("train")
  /\ Linked
  /\ ~FusedMode
  /\ \E k \in StepIds : IsTrainingStep(k) /\ k > 1

\* the result of predict over N rows: N output rows, row r the model output
\* for input row r, every forward made with training flag false
PredictsEveryRow ==
  /\ call.exc = NoExc
  /\ Len(call.predictions) = call.args[1]
  /\ \A r \in 1 .. Len(call.predictions) :
       call.predictions[r] = [row |-> r, chain |-> layers, tr |-> FALSE]
  /\ \A i \in 1 .. Len(trace) :
       trace[i].op \in ForwardOps => ~trace[i].training

\* C9 as stated: for every input with N rows and every batch size, unbatched
\* included, predict returns exactly N output rows, output row r being the
\* model output for input row r: the outputs of the steps are concatenated in
\* step order and every step is forwarded with training flag false.
C9_PredictRowsAnyInput ==
  (call.op = "predict" /\ Linked) => PredictsEveryRow

\* C9 amended: the same for every input with N >= 1 rows and every batch
\* size, and for the empty input when unbatched; the empty input with a batch
\* size given makes predict raise without running a step.
C9_PredictRows ==
  (call.op = "predict" /\ Linked) =>
    IF call.args[1] >= 1 \/ ~Truthy(call.args[2]) THEN PredictsEveryRow
    ELSE call.exc = "ValueError" /\ trace = << >>

C9_Witness ==
  /\ Returned("predict")
  /\ Linked
  /\ call.args[2] >= 1
  /\ call.args[1] > call.args[2]
  /\ call.args[1] % call.args[2] # 0

\* ---- evaluation
\* no call of log q backpropagates or optimizes, and every forward in it has
\* training flag false
InferenceOnly(q) ==
  \A i \in 1 .. Len(q) :
    /\ q[i].op \notin BackwardOps \cup OptimizerOps
    /\ q[i].op \in ForwardOps => ~q[i].training

\* the calls of log q made by validation passes: those between a
\* "validating..." report and the start of the next epoch
ValidationCalls(q) ==
  LET idx == {i \in 1 .. Len(q) :
                \E j \in 1 .. i :
                  /\ q[j].op = "print.validating"
                  /\ \A m \in j .. i : q[m].op # "print.epoch"}
  IN SelectSeq([i \in 1 .. Len(q) |-> IF i \in idx THEN q[i]
                                      ELSE [q[i] EXCEPT !.op = "skip"]],
               LAMBDA e : e.op # "skip")

\* C10: an evaluate call, standalone or as the validation pass inside train,
\* never invokes backward or any optimizer operation, and every forward it
\* issues uses training flag false; the parameters of every layer are the
\* same after evaluate as before it.
C10_EvaluateFrame ==
  [][/\ call'.op = "evaluate" =>
          /\ InferenceOnly(trace')
          /\ \A l \in LayerIds : layer'[l].params = layer[l].params
     /\ call'.op = "train" => InferenceOnly(ValidationCalls(trace'))]_vars

C10_Witness ==
  /\ Returned("evaluate")
  /\ Linked
  /\ \E l \in LayerIds : layer[l].params > 0
  /\ \E k \in StepIds : k > 1

\* ---- use of an unbuilt graph
\* Some finalize call has run to its end.  self.activation is assigned by the
\* last statement of the linking loop (line 108) and by nothing else; after it
\* the loss is set and the list is not empty, so the rest of finalize cannot
\* raise, and neither is ever undone.
FinalizeCompleted == activation # 0

\* C11: on a model on which finalize has not completed (never called, or
\* called and failed), forward, backward and train each fail, for every layer
\* list: none of them returns normally.
C11_UnbuiltUseFails ==
  (call.op \in {"forward", "backward", "train"} /\ ~FinalizeCompleted)
    => call.exc # NoExc

\* the batch-size argument of the last call of a step loop
BatchArg == IF call.op = "train" THEN call.args[4] ELSE call.args[2]

\* C12: a batch size of zero passed to train, evaluate or predict is rejected:
\* the call fails and runs no step.
C12_ZeroBatchRejected ==
  (call.op \in {"train", "evaluate", "predict"} /\ BatchArg = 0)
    => (call.exc # NoExc /\ StepIds = {})

OrderedSnapshotsReturned ==
  /\ Returned("get_parameters")
  /\ FinalizeCompleted
  /\ Len(call.parameters) >= 2
  /\ call.parameters[1] # call.parameters[2]

NoDuplicates(q) == \A i, j \in 1 .. Len(q) : i # j => q[i] # q[j]

\* C16: after every finalize that completed, a repeated one included, the
\* trainable set is the layers of the list that expose parameters, in list
\* order, without duplicates, and the loss object was handed this sequence.
C16_TrainableSet ==
  Returned("finalize") =>
    /\ trainable = SelectSeq(layers, HasWeights)
    /\ NoDuplicates(trainable)
    /\ loss_obj[loss].trainable = trainable

C16_Witness ==
  /\ Returned("finalize")
  /\ layer_input >= 2
  /\ Len(trainable) >= 2
  /\ Len(trainable) < NumLayers

\* ---- the training loop as a whole
\* the arguments of the last train call
TrainRows == call.args[1]
TrainEpochs == call.args[2]
TrainReport == call.args[3]
TrainBatches == call.args[4]
TrainValidation == call.args[5]

\* C17: reporting never gates the training control flow: on a finalized
\* model train terminates normally for every value of the report interval.
C17_ReportNeverGates ==
  (call.op = "train" /\ Linked) => call.exc = NoExc

\* the positions of the log holding a call named op
Idx(op) == {i \in 1 .. Len(trace) : trace[i].op = op}

\* the last call named op before position p
LastBefore(op, p) ==
  CHOOSE j \in Idx(op) : j < p /\ \A m \in Idx(op) : m < p => m <= j

\* the calls named calc made after the last call named reset before p
Since(reset, calc, p) ==
  {m \in Idx(calc) : LastBefore(reset, p) < m /\ m < p}

\* What an accumulator read at position p of the epoch summary holds: one
\* contribution per training step of one pass over the dataset and nothing
\* else, the reset having been made under the epoch header.
OneEpochAccumulated(reset, calc, p) ==
  /\ \E j \in Idx(reset) : j < p
  /\ \E h \in Idx("print.epoch") :
       /\ h < LastBefore(reset, p)
       /\ \A m \in h + 1 .. LastBefore(reset, p) : trace[m].step = 0
  /\ Cardinality(Since(reset, calc, p)) = Steps(TrainRows, TrainBatches)
  /\ Cardinality({trace[m].step : m \in Since(reset, calc, p)})
       = Steps(TrainRows, TrainBatches)
  /\ \A m \in Since(reset, calc, p) : IsTrainingStep(trace[m].step)
  /\ Flatten([k \in 1 .. Steps(TrainRows, TrainBatches) |->
                trace[CHOOSE m \in Since(reset, calc, p) :
                        Cardinality({x \in Since(reset, calc, p) : x <= m})
                          = k].arg.rows])
       = [i \in 1 .. TrainRows |-> i]

\* C18: for every epoch of a train call, with or without validation data,
\* the loss and the accuracy read at the end of the epoch accumulate exactly
\* one contribution per training step of that epoch and nothing else: the
\* accumulators are reset at the start of the epoch before its first step,
\* and the reset made by a validation pass comes after the read.
C18_EpochAccumulation ==
  (call.op = "train" /\ Linked) =>
    /\ \A p \in Idx("print.training") :
         /\ trace[p - 2].op = "loss.accumulate"
         /\ trace[p - 1].op = "accuracy.accumulate"
         /\ OneEpochAccumulated("loss.reset", "loss.calculate", p - 2)
         /\ OneEpochAccumulated("accuracy.reset", "accuracy.calculate", p - 1)
    /\ \A v \in Idx("print.validating") :
         /\ trace[v - 1].op = "print.training"
         /\ \A j \in Idx("loss.reset") \cup Idx("accuracy.reset") :
              (j > v - 3) => (j > v)
    /\ (call.exc = NoExc /\ TrainEpochs >= 1 /\ TrainValidation = 0)
         => /\ loss_obj[loss].count = Steps(TrainRows, TrainBatches)
            /\ loss_obj[loss].rows = TrainRows
            /\ accuracy_obj.count = Steps(TrainRows, TrainBatches)
            /\ accuracy_obj.rows = TrainRows

C18_Witness ==
  /\ Returned("train")
  /\ Linked
  /\ TrainEpochs >= 2
  /\ TrainValidation # 0
  /\ Steps(TrainRows, TrainBatches) >= 2

TrainingStepIds == {k \in StepIds : IsTrainingStep(k)}

\* the steps run one after another: the calls of a step are never followed
\* by a call of an earlier step, and the forward and backward calls are
\* numbered in the order of the log
Sequential ==
  \A i, j \in 1 .. Len(trace) :
    i < j =>
      /\ (trace[i].step # 0 /\ trace[j].step # 0)
           => trace[i].step <= trace[j].step
      /\ (trace[i].call # 0 /\ trace[j].call # 0)
           => trace[i].call <= trace[j].call

\* C19: a train call with E >= 0 epochs, N >= 1 rows and batch size B >= 1
\* (or unbatched) terminates after exactly E * steps training steps, steps
\* being ceil(N/B) (1 when unbatched), the steps running strictly one after
\* another; with validation data it runs exactly E evaluation passes, one
\* after the last step of each epoch.
C19_TrainTerminates ==
  (/\ call.op = "train"
   /\ Linked
   /\ TrainRows >= 1
   /\ (TrainBatches >= 1 \/ TrainBatches = None))
    => /\ call.exc = NoExc
       /\ Cardinality(TrainingStepIds)
            = TrainEpochs * Steps(TrainRows, TrainBatches)
       /\ Sequential
       /\ Cardinality(Idx("print.validation"))
            = IF TrainValidation # 0 THEN TrainEpochs ELSE 0
       /\ Cardinality(Idx("print.validating"))
            = Cardinality(Idx("print.validation"))
       /\ \A v \in Idx("print.validating") :
            /\ trace[v - 1].op = "print.training"
            /\ IsTrainingStep(trace[v - 4].step)

\* the same with a report interval of at least 1
TrainTerminatesReporting ==
  (call.op = "train" /\ TrainReport = 0) \/ C19_TrainTerminates

\* ---- persistence
\* the model in the file
Snapshot == saved[1]

\* the loss objects the pickled model reaches: its loss, and any a layer of
\* its list still points to
SnapshotLosses ==
  {Snapshot.loss}
  \cup {Snapshot.layer[Snapshot.layers[i]].next.i :
          i \in {j \in 1 .. Len(Snapshot.layers) :
                   Snapshot.layer[Snapshot.layers[j]].next.k = "loss"}}

\* C13: after any sequence of train, evaluate, forward and backward calls the
\* snapshot that save writes holds no batch-scoped cache: the sentinel has no
\* stored output, the loss no stored dinputs, no layer stored inputs, output
\* or gradients, and no other object of the model, the fused shortcut
\* included, a gradient of the last batch; its accumulators are reset.
C13_SnapshotHoldsNoCache ==
  Returned("save") =>
    /\ ~Has(Snapshot.input_output)
    /\ \A o \in SnapshotLosses : ~Has(Snapshot.loss_obj[o].dinputs)
    /\ \A i \in 1 .. Len(Snapshot.layers) :
         /\ ~Has(Snapshot.layer[Snapshot.layers[i]].inputs)
         /\ ~Has(Snapshot.layer[Snapshot.layers[i]].output)
         /\ ~Has(Snapshot.layer[Snapshot.layers[i]].dinputs)
         /\ ~Has(Snapshot.layer[Snapshot.layers[i]].dweights)
    /\ ~Has(Snapshot.combined_loss_activation.dinputs)
    /\ Snapshot.loss_obj[Snapshot.loss].count = 0
    /\ Snapshot.loss_obj[Snapshot.loss].rows = 0
    /\ Snapshot.accuracy_obj.count = 0
    /\ Snapshot.accuracy_obj.rows = 0

\* the same, the fused shortcut and the losses other than the current one
\* left aside
SnapshotStripsListed ==
  Returned("save") =>
    /\ ~Has(Snapshot.input_output)
    /\ ~Has(Snapshot.loss_obj[Snapshot.loss].dinputs)
    /\ \A i \in 1 .. Len(Snapshot.layers) :
         /\ ~Has(Snapshot.layer[Snapshot.layers[i]].inputs)
         /\ ~Has(Snapshot.layer[Snapshot.layers[i]].output)
         /\ ~Has(Snapshot.layer[Snapshot.layers[i]].dinputs)
         /\ ~Has(Snapshot.layer[Snapshot.layers[i]].dweights)
    /\ Snapshot.loss_obj[Snapshot.loss].count = 0
    /\ Snapshot.accuracy_obj.count = 0

\* the model the caller holds
Live ==
  [layers |-> layers, loss |-> loss, optimizer |-> optimizer,
   accuracy |-> accuracy, layer_input |-> layer_input,
   input_output |-> input_output, trainable |-> trainable,
   activation |-> activation,
   combined_loss_activation |-> combined_loss_activation,
   layer |-> layer, loss_obj |-> loss_obj, accuracy_obj |-> accuracy_obj]

\* C14: a model that is saved and then loaded produces the forward output of
\* a freshly finalized model with the same layers and parameters.  The copy
\* save writes keeps the layer list, the sentinel, the prev/next links and
\* the parameters; load hands back what was written; and forward on a loaded
\* model that was finalized returns the batch passed through every layer of
\* the list in order, in this pass.
C14_SaveLoadForward ==
  [][/\ (call'.op = "save" /\ call'.exc = NoExc)
          => /\ saved'[1].layers = layers
             /\ saved'[1].layer_input = layer_input
             /\ saved'[1].activation = activation
             /\ \A i \in 1 .. Len(layers) :
                  /\ saved'[1].layer[layers[i]].prev = layer[layers[i]].prev
                  /\ saved'[1].layer[layers[i]].next = layer[layers[i]].next
                  /\ saved'[1].layer[layers[i]].params
                       = layer[layers[i]].params
     /\ (call'.op = "load" /\ call'.exc = NoExc) => Live' = saved[1]
     /\ (call'.op = "forward" /\ nloads' > 0 /\ Linked')
          => /\ call'.exc = NoExc
             /\ call'.ret = [pass |-> 1, chain |-> layers',
                             rows |-> Dataset(call'.args[1]).rows,
                             tr |-> trace'[1].training]]_vars

\* forward returned on a loaded model whose file was written while the model
\* held the caches of an earlier pass
C14_Witness ==
  /\ Returned("forward")
  /\ nloads > 0
  /\ Linked
  /\ NumLayers >= 2
  /\ saved # << >>
  /\ layers = Snapshot.layers
  /\ ~Has(layer[layers[1]].dinputs)
  /\ \E l \in LayerIds : layer[l].params > 0

\* C20: save leaves the live model unchanged: its accumulators, the
\* sentinel's output, the loss's dinputs and every layer's stored inputs,
\* outputs and gradients hold after save the values they held before it.
C20_SaveFrame ==
  [][call'.op = "save" =>
       /\ layers' = layers
       /\ loss' = loss
       /\ optimizer' = optimizer
       /\ accuracy' = accuracy
       /\ layer_input' = layer_input
       /\ trainable' = trainable
       /\ activation' = activation
       /\ accuracy_obj' = accuracy_obj
       /\ input_output' = Begin.input_output
       /\ combined_loss_activation' = Begin.combined_loss_activation
       /\ layer' = Begin.layer
       /\ loss_obj' = Begin.loss_obj]_vars

C20_Witness ==
  /\ Returned("save")
  /\ Linked
  /\ Has(input_output)
  /\ Has(loss_obj[loss].dinputs)
  /\ Has(layer[LastLayer].output)
  /\ Has(layer[layers[1]].dweights)
  /\ loss_obj[loss].count > 0
  /\ accuracy_obj.count > 0
====
